---- MODULE Spec2Model ----
(***************************************************************************)
(* Model of video_converter.py: create_video_from_images and main.        *)
(*                                                                         *)
(* A file of the input folder is a record [pre, digits, ext]: the name is  *)
(* the prefix, a run of decimal digits and the extension ("a10.png" is     *)
(* [pre |-> "a", digits |-> <<1, 0>>, ext |-> "png"]).  The folder, the    *)
(* order in which the directory lists its entries and the outcome of       *)
(* decoding each file are fixed when the behaviour starts and never change *)
(* (the "unchanged input folder").  The output stream records every frame  *)
(* that out.write is handed, as it is handed over.                         *)
(***************************************************************************)
EXTENDS Integers, Sequences, FiniteSets, TLC

VARIABLES folder, listing, content,
          no_rotate, fps, img_pattern, rotate,
          pc, image_paths, first_image, height, width, total_images, i,
          out, video, stdout, runs, prev

vars == <<folder, listing, content, no_rotate, fps, img_pattern, rotate,
          pc, image_paths, first_image, height, width, total_images, i,
          out, video, stdout, runs, prev>>

env == <<folder, listing, content>>
args == <<no_rotate, fps, img_pattern, rotate>>

(* ---------------------------- bounds ---------------------------------- *)
MaxFiles == 3
MaxRuns == 2

(* ------------------------- the input folder --------------------------- *)
F(p, d, e) == [pre |-> p, digits |-> d, ext |-> e]

\* a1.png, a2.png, a10.png and b1.jpg
Universe == {F("a", <<1>>, "png"), F("a", <<2>>, "png"), F("a", <<1, 0>>, "png"),
             F("b", <<1>>, "jpg")}

\* sizes an image file can decode to, <<width, height>>
Dims == {<<2, 1>>, <<3, 2>>}

\* cv2.imread gives None for a file it cannot decode
None == [none |-> TRUE]
Corrupt == <<>>

Patterns == {"*.png", "*.jpg"}
DefaultFps == 30
FpsChoices == {10, DefaultFps}

RECURSIVE Perms(_)
Perms(S) == IF S = {} THEN {<<>>}
            ELSE UNION {{<<x>> \o p : p \in Perms(S \ {x})} : x \in S}

(* ----------------------- library primitives --------------------------- *)
\* fnmatch of a name against '*.<ext>'
fnmatch(f, pattern) == pattern = "*." \o f.ext

\* glob.glob(os.path.join(image_folder, img_pattern)): the matching entries
\* in directory order
glob(lst, pattern) == SelectSeq(lst, LAMBDA f : fnmatch(f, pattern))

Ord == [a |-> 1, b |-> 2, jpg |-> 1, png |-> 2]

RECURSIVE IntOf(_)
IntOf(d) == IF d = <<>> THEN 0 ELSE 10 * IntOf(SubSeq(d, 1, Len(d) - 1)) + d[Len(d)]

\* natsort key: text chunks compared as text, digit runs by numeric value
NatLess(f, g) ==
    \/ Ord[f.pre] < Ord[g.pre]
    \/ /\ f.pre = g.pre
       /\ \/ IntOf(f.digits) < IntOf(g.digits)
          \/ /\ IntOf(f.digits) = IntOf(g.digits)
             /\ Ord[f.ext] < Ord[g.ext]

RECURSIVE SeqLexLess(_, _)
SeqLexLess(s, t) ==
    IF s = <<>> THEN t # <<>>
    ELSE IF t = <<>> THEN FALSE
    ELSE IF s[1] # t[1] THEN s[1] < t[1]
    ELSE SeqLexLess(Tail(s), Tail(t))

\* character-by-character order of the names ('.' sorts before the digits)
LexLess(f, g) ==
    \/ Ord[f.pre] < Ord[g.pre]
    \/ /\ f.pre = g.pre
       /\ \/ SeqLexLess(f.digits, g.digits)
          \/ /\ f.digits = g.digits
             /\ Ord[f.ext] < Ord[g.ext]

\* stable insertion of x into the sorted sequence s (after its equals);
\* less is the set of pairs <<f, g>> with f strictly before g
RECURSIVE Insert(_, _, _)
Insert(x, s, less) ==
    IF s = <<>> THEN <<x>>
    ELSE IF <<x, s[1]>> \in less THEN <<x>> \o s
    ELSE <<s[1]>> \o Insert(x, Tail(s), less)

RECURSIVE SortBy(_, _)
SortBy(s, less) ==
    IF s = <<>> THEN <<>>
    ELSE Insert(s[Len(s)], SortBy(SubSeq(s, 1, Len(s) - 1), less), less)

\* sorted(paths): plain string order
sorted_lexical(paths) ==
    SortBy(paths, {q \in Universe \X Universe : LexLess(q[1], q[2])})
\* natsorted(paths)
natsorted(paths) ==
    SortBy(paths, {q \in Universe \X Universe : NatLess(q[1], q[2])})

\* cv2.imread(path)
imread(path) ==
    IF content[path] = Corrupt THEN None
    ELSE [src |-> path, w |-> content[path][1], h |-> content[path][2], orient |-> 0]

rotate_identity(img) == img
\* cv2.rotate(img, cv2.ROTATE_90_COUNTERCLOCKWISE)
cv2_rotate(img) ==
    [src |-> img.src, w |-> img.h, h |-> img.w, orient |-> (img.orient + 1) % 4]

\* img.shape
shape(img) == <<img.h, img.w, 3>>

\* `not image_paths`
empty_always_false(paths) == FALSE
NoMatch(paths) == paths = <<>>

NoVideo == [exists |-> FALSE, fps |-> 0, width |-> 0, height |-> 0, frames |-> <<>>]

(* ------------------------------ Init ---------------------------------- *)
Init ==
    /\ folder \in {S \in SUBSET Universe : Cardinality(S) <= MaxFiles}
    /\ listing \in Perms(folder)
    /\ content \in [folder -> Dims \cup {Corrupt}]
    /\ no_rotate = FALSE /\ fps = DefaultFps /\ img_pattern = "*.png" /\ rotate = TRUE
    /\ pc = "not_started"
    /\ image_paths = <<>>
    /\ first_image = None
    /\ height = 0 /\ width = 0 /\ total_images = 0 /\ i = 0
    /\ out = "none"
    /\ video = NoVideo
    /\ stdout = <<>>
    /\ runs = 1
    /\ prev = NoVideo

(* ----------------------------- main ----------------------------------- *)
\* main(): parse the command line and call create_video_from_images
Main ==
    /\ pc = "not_started"
    /\ \E nr \in BOOLEAN, r \in FpsChoices, p \in Patterns :
          /\ no_rotate' = nr
          /\ fps' = r
          /\ img_pattern' = p
          /\ rotate' = ~nr
    /\ pc' = "glob"
    /\ UNCHANGED <<env, image_paths, first_image, height, width, total_images, i,
                   out, video, stdout, runs, prev>>

(* -------------------- create_video_from_images ------------------------ *)
Glob ==
    /\ pc = "glob"
    /\ image_paths' = glob(listing, img_pattern)
    /\ pc' = "check"
    /\ UNCHANGED <<env, args, first_image, height, width, total_images, i,
                   out, video, stdout, runs, prev>>

NoImages ==
    /\ pc = "check"
    /\ NoMatch(image_paths)
    /\ stdout' = Append(stdout, [kind |-> "no_images", pattern |-> img_pattern])
    /\ pc' = "returned"
    /\ UNCHANGED <<env, args, image_paths, first_image, height, width, total_images, i,
                   out, video, runs, prev>>

Sort ==
    /\ pc = "check"
    /\ ~NoMatch(image_paths)
    /\ image_paths' = natsorted(image_paths)
    /\ pc' = "read_first"
    /\ UNCHANGED <<env, args, first_image, height, width, total_images, i,
                   out, video, stdout, runs, prev>>

\* the image lines 29-33 leave in first_image
FirstImage == IF rotate THEN cv2_rotate(imread(image_paths[1]))
              ELSE imread(image_paths[1])

\* image_paths[0] on an empty list, cv2.rotate(None) and None.shape all raise
FirstFaults == \/ image_paths = <<>>
               \/ imread(image_paths[1]) = None

ReadFirst ==
    /\ pc = "read_first"
    /\ ~FirstFaults
    /\ first_image' = FirstImage
    /\ height' = shape(FirstImage)[1]
    /\ width' = shape(FirstImage)[2]
    /\ pc' = "open_writer"
    /\ UNCHANGED <<env, args, image_paths, total_images, i, out, video, stdout,
                   runs, prev>>

\* variant: an undecodable first image is tolerated and the writer is opened
\* with no dimensions
FirstImageFault_tolerated ==
    /\ pc = "read_first"
    /\ FirstFaults
    /\ pc' = "open_writer"
    /\ UNCHANGED <<env, args, image_paths, first_image, height, width, total_images, i,
                   out, video, stdout, runs, prev>>

FirstImageFault ==
    /\ pc = "read_first"
    /\ FirstFaults
    /\ pc' = "faulted"
    /\ UNCHANGED <<env, args, image_paths, first_image, height, width, total_images, i,
                   out, video, stdout, runs, prev>>

\* the file cv2.VideoWriter(output_video_path, fourcc, fps, (width, height)) creates
append_to_existing(old, r, wd, ht) ==
    [exists |-> TRUE, fps |-> r, width |-> wd, height |-> ht, frames |-> old.frames]
VideoWriter(old, r, wd, ht) ==
    [exists |-> TRUE, fps |-> r, width |-> wd, height |-> ht, frames |-> <<>>]

OpenWriter ==
    /\ pc = "open_writer"
    /\ out' = "open"
    /\ video' = VideoWriter(video, fps, width, height)
    /\ total_images' = Len(image_paths)
    /\ i' = 0
    /\ pc' = "loop"
    /\ UNCHANGED <<env, args, image_paths, first_image, height, width, stdout,
                   runs, prev>>

\* variant: an undecodable file inside the loop raises instead of being skipped
LoopSkip_raises ==
    /\ pc = "loop"
    /\ i < total_images
    /\ imread(image_paths[i + 1]) = None
    /\ pc' = "faulted"
    /\ UNCHANGED <<env, args, image_paths, first_image, height, width, total_images, i,
                   out, video, stdout, runs, prev>>

LoopSkip ==
    /\ pc = "loop"
    /\ i < total_images
    /\ imread(image_paths[i + 1]) = None
    /\ stdout' = Append(stdout, [kind |-> "warning", path |-> image_paths[i + 1]])
    /\ i' = i + 1
    /\ UNCHANGED <<env, args, pc, image_paths, first_image, height, width, total_images,
                   out, video, runs, prev>>

\* the frame lines 46-53 hand to out.write
Frame(path) == IF rotate THEN cv2_rotate(imread(path)) ELSE imread(path)

Progress(n) == [kind |-> "progress", done |-> n, total |-> total_images]

LoopWrite ==
    /\ pc = "loop"
    /\ i < total_images
    /\ imread(image_paths[i + 1]) # None
    /\ video' = [video EXCEPT !.frames = Append(@, Frame(image_paths[i + 1]))]
    /\ stdout' = IF (i + 1) % 10 = 0 \/ (i + 1) = total_images
                 THEN Append(stdout, Progress(i + 1))
                 ELSE stdout
    /\ i' = i + 1
    /\ UNCHANGED <<env, args, pc, image_paths, first_image, height, width, total_images,
                   out, runs, prev>>

\* variant: the loop ends without out.release()
Release_forgotten ==
    /\ pc = "loop"
    /\ i = total_images
    /\ pc' = "released"
    /\ UNCHANGED <<env, args, image_paths, first_image, height, width, total_images, i,
                   out, video, stdout, runs, prev>>

Release ==
    /\ pc = "loop"
    /\ i = total_images
    /\ out' = "released"
    /\ pc' = "released"
    /\ UNCHANGED <<env, args, image_paths, first_image, height, width, total_images, i,
                   video, stdout, runs, prev>>

PrintSaved ==
    /\ pc = "released"
    /\ stdout' = Append(stdout, [kind |-> "saved"])
    /\ pc' = "done"
    /\ UNCHANGED <<env, args, image_paths, first_image, height, width, total_images, i,
                   out, video, runs, prev>>

Terminal == {"done", "returned", "faulted"}

\* the program is run again with the same command line on the same folder;
\* the file the earlier run left at the output path is still there
Rerun ==
    /\ pc \in Terminal
    /\ runs < MaxRuns
    /\ runs' = runs + 1
    /\ prev' = video
    /\ pc' = "glob"
    /\ image_paths' = <<>>
    /\ first_image' = None
    /\ height' = 0 /\ width' = 0 /\ total_images' = 0 /\ i' = 0
    /\ out' = "none"
    /\ stdout' = <<>>
    /\ UNCHANGED <<env, args, video>>

RunStep == \/ Glob \/ NoImages \/ Sort \/ ReadFirst \/ FirstImageFault
           \/ OpenWriter \/ LoopSkip \/ LoopWrite \/ Release \/ PrintSaved

Next == \/ Main
        \/ Glob
        \/ NoImages
        \/ Sort
        \/ ReadFirst
        \/ FirstImageFault
        \/ OpenWriter
        \/ LoopSkip
        \/ LoopWrite
        \/ Release
        \/ PrintSaved
        \/ Rerun

Spec == Init /\ [][Next]_vars

\* the run is one sequential thread: a step that can be taken is taken
FairSpec == Init /\ [][Next]_vars /\ WF_vars(RunStep)

TypeOK == /\ pc \in {"not_started", "glob", "check", "read_first", "open_writer",
                     "loop", "released"} \cup Terminal
          /\ out \in {"none", "open", "released"}
          /\ i \in 0..Len(image_paths)
          /\ runs \in 1..MaxRuns

(* ======================= properties of the run ======================== *)
Matched == {f \in folder : fnmatch(f, img_pattern)}
Decodable(f) == content[f] # Corrupt
Srcs(frames) == [k \in 1..Len(frames) |-> frames[k].src]
Kinds(msgs) == {msgs[k].kind : k \in 1..Len(msgs)}
Called == pc # "not_started"

\* C1: when no file matches the pattern, the run prints the 'No images found'
\* message and returns; the writer is never opened, no output file exists, no
\* frame is written and no other message is printed.
C1_NoImagesReturnsEarly ==
    (Called /\ Matched = {}) =>
        /\ out = "none"
        /\ ~video.exists
        /\ video.frames = <<>>
        /\ Kinds(stdout) \subseteq {"no_images"}
        /\ pc \notin {"glob", "check"} =>
              /\ pc = "returned"
              /\ stdout = <<[kind |-> "no_images", pattern |-> img_pattern]>>

C1_Witness ==
    /\ pc = "returned"
    /\ folder # {}
    /\ Matched = {}
    /\ Len(stdout) = 1

\* C2 (as claimed): when a run over a non-empty set of matched files ends, the
\* number of frames in the output stream equals the number of matched files
\* that decode.
C2_FrameCountEqualsDecodable ==
    (pc \in Terminal /\ Matched # {}) =>
        Len(video.frames) = Cardinality({f \in Matched : Decodable(f)})

\* C3: in the write loop and after it, the frames written so far are the
\* naturally sorted path list up to the current index, restricted to the files
\* that decode; the path list is the matched files in natural order, each once.
C3_FramesInNaturalOrder ==
    pc \in {"loop", "released", "done"} =>
        /\ Srcs(video.frames) = SelectSeq(SubSeq(image_paths, 1, i), Decodable)
        /\ \A j, k \in 1..Len(image_paths) :
              j < k => /\ ~NatLess(image_paths[k], image_paths[j])
                       /\ image_paths[j] # image_paths[k]
        /\ {image_paths[k] : k \in 1..Len(image_paths)} = Matched
        /\ \A j, k \in 1..Len(video.frames) :
              j < k => video.frames[j].src # video.frames[k].src

\* a run that wrote img2 before img10, where the character order is the reverse
C3_Witness ==
    /\ pc = "done"
    /\ \E j, k \in 1..Len(video.frames) :
          /\ j < k
          /\ LexLess(video.frames[k].src, video.frames[j].src)

\* C4 (as claimed): every frame in the output stream has the width and height
\* declared when the writer was opened, those of the first processed image.
C4_FramesHaveDeclaredSize ==
    out # "none" =>
        /\ video.width = first_image.w
        /\ video.height = first_image.h
        /\ \A k \in 1..Len(video.frames) :
              /\ video.frames[k].w = video.width
              /\ video.frames[k].h = video.height

\* C5: with rotate on, every written frame and the first image that fixes the
\* stream size have the input image's axes swapped; with rotate off they have
\* the input's width and height; rotate is on exactly when --no-rotate is absent.
AxesOf(img, input) ==
    IF rotate THEN img.w = input.h /\ img.h = input.w
    ELSE img.w = input.w /\ img.h = input.h

C5_RotationUniform ==
    /\ rotate = ~no_rotate
    /\ \A k \in 1..Len(video.frames) :
          AxesOf(video.frames[k], imread(video.frames[k].src))
    /\ pc \in {"open_writer", "loop", "released", "done"} =>
          /\ AxesOf(first_image, imread(image_paths[1]))
          /\ width = first_image.w /\ height = first_image.h
    /\ out # "none" => video.width = width /\ video.height = height

C5_Witness ==
    /\ pc = "done"
    /\ rotate
    /\ Len(video.frames) >= 2
    /\ video.width = 1 /\ video.height = 2

\* C6: a file that fails to decode inside the write loop gets a warning naming
\* it and no frame, the frames already written stay, and the loop goes on with
\* the next file; at the end every decodable file has its frame.
Undecodable(f) == content[f] = Corrupt

C6_SkipStep ==
    (pc = "loop" /\ i < total_images /\ imread(image_paths[i + 1]) = None) =>
        /\ stdout' = Append(stdout, [kind |-> "warning", path |-> image_paths[i + 1]])
        /\ video' = video
        /\ i' = i + 1
        /\ pc' = "loop"
        /\ out' = "open"

C6_AtEnd ==
    (pc \in Terminal /\ out # "none") =>
        /\ pc = "done"
        /\ Srcs(video.frames) = SelectSeq(image_paths, Decodable)
        /\ SelectSeq(stdout, LAMBDA m : m.kind = "warning")
             = [k \in 1..Len(SelectSeq(image_paths, Undecodable)) |->
                  [kind |-> "warning", path |-> SelectSeq(image_paths, Undecodable)[k]]]

C6_DecodeFailureSkipped == [][C6_SkipStep]_vars /\ []C6_AtEnd

\* three files, the middle one corrupt: two frames, one warning
C6_Witness ==
    /\ pc = "done"
    /\ Len(image_paths) = 3
    /\ Undecodable(image_paths[2])
    /\ Len(video.frames) = 2
    /\ "warning" \in Kinds(stdout)

\* C7: a run that opens the writer releases it after the last path, once, and
\* then prints the completion message; frames are written only while the
\* writer is open, and the message is never printed while it is open.
C7_FrameStep == Len(video'.frames) > Len(video.frames) => out = "open" /\ out' = "open"
C7_ReleaseStep ==
    /\ (out # "released" /\ out' = "released") => out = "open" /\ i = Len(image_paths)
    /\ (out = "released" /\ runs' = runs) => out' = "released" /\ video' = video
C7_Messages ==
    /\ "saved" \in Kinds(stdout) => out = "released"
    /\ pc = "done" =>
          /\ out = "released"
          /\ stdout[Len(stdout)].kind = "saved"
          /\ Len(SelectSeq(stdout, LAMBDA m : m.kind = "saved")) = 1

C7_WriterFinalized ==
    /\ (out = "open") ~> (pc = "done")
    /\ [][C7_FrameStep /\ C7_ReleaseStep]_vars
    /\ []C7_Messages

C7_Witness ==
    /\ pc = "done"
    /\ out = "released"
    /\ Len(video.frames) >= 1

Phase(p) ==
    CASE p = "not_started" -> "not-started"
      [] p \in {"glob", "check", "read_first"} -> "collecting-paths"
      [] p = "open_writer" -> "dimensions-established"
      [] p = "loop" -> "streaming-frames"
      [] p \in {"released", "done"} -> "finalized"
      [] p = "returned" -> "terminated-early"
      [] p = "faulted" -> "faulted"

LinearEdges ==
    {<<"not-started", "collecting-paths">>,
     <<"collecting-paths", "dimensions-established">>,
     <<"dimensions-established", "streaming-frames">>,
     <<"streaming-frames", "finalized">>,
     <<"collecting-paths", "terminated-early">>}

C9_Step ==
    runs' = runs =>
        /\ \/ Phase(pc') = Phase(pc)
           \/ <<Phase(pc), Phase(pc')>> \in LinearEdges
        /\ Phase(pc') = "terminated-early" => Matched = {}

C9_SingleLinearPass == [][C9_Step]_vars

\* C10: when the first file in natural order does not decode, the run faults
\* while establishing the dimensions, with rotate on or off: the writer is
\* never opened, the output is not touched, and no warning or completion
\* message is printed.
FirstUndecodable ==
    /\ pc \notin {"not_started", "glob", "check"}
    /\ image_paths # <<>>
    /\ imread(image_paths[1]) = None

C10_FirstFileFaults ==
    FirstUndecodable =>
        /\ pc \in {"read_first", "faulted"}
        /\ out = "none"
        /\ video = prev
        /\ stdout = <<>>

C10_Witness ==
    /\ pc = "faulted"
    /\ ~rotate
    /\ \E k \in 2..Len(image_paths) : Decodable(image_paths[k])

====
